---- MODULE Spec2Model ----
(***************************************************************************)
(* Model of Index/inspect_rounds_schema.py: the schema sniffer's single    *)
(* pass over a directory of ".json" files (main, lines 11-81).             *)
(*                                                                         *)
(* Strings are sequences of character codes, so that endswith, lower, the  *)
(* substring tests and the lexicographic sort of keys are computed as      *)
(* Python computes them.  A JSON value is a record [t, v] with t its type  *)
(* and v its payload, always a sequence:                                   *)
(*   null  <<>>     bool <<0 or 1>>     num <<n>>     str  character codes *)
(*   list  the entries     dict  the <<key, value>> pairs in file order    *)
(***************************************************************************)
EXTENDS Integers, Sequences, FiniteSets, TLC

\* ---------------------------------------------------------------- strings
S_rounds == <<114, 111, 117, 110, 100, 115>>   \* "rounds"
S_data == <<100, 97, 116, 97>>   \* "data"
S_items == <<105, 116, 101, 109, 115>>   \* "items"
S_other == <<111, 116, 104, 101, 114>>   \* "other"
DotJson == <<46, 106, 115, 111, 110>>   \* ".json"
DotTxt == <<46, 116, 120, 116>>   \* ".txt"
DotJsonBak == <<46, 106, 115, 111, 110, 46, 98, 97, 107>>   \* ".json.bak"
K_player == <<112, 108, 97, 121, 101, 114>>   \* "player"
K_score == <<115, 99, 111, 114, 101>>   \* "score"
K_Tournament_Date == <<84, 111, 117, 114, 110, 97, 109, 101, 110, 116, 95, 68, 97, 116, 101>>   \* "Tournament_Date"
K_R1 == <<82, 49>>   \* "R1"
K_R10 == <<82, 49, 48>>   \* "R10"
K_Home_Club == <<72, 111, 109, 101, 95, 67, 108, 117, 98>>   \* "Home_Club"
K_venue == <<118, 101, 110, 117, 101>>   \* "venue"
K_TotalStrokes == <<84, 111, 116, 97, 108, 83, 116, 114, 111, 107, 101, 115>>   \* "TotalStrokes"
K_Event_Time == <<69, 118, 101, 110, 116, 95, 84, 105, 109, 101>>   \* "Event_Time"
K_extra == <<101, 120, 116, 114, 97>>   \* "extra"
W_date == <<100, 97, 116, 101>>   \* "date"
W_time == <<116, 105, 109, 101>>   \* "time"
W_score == <<115, 99, 111, 114, 101>>   \* "score"
W_strokes == <<115, 116, 114, 111, 107, 101, 115>>   \* "strokes"
W_r1 == <<114, 49>>   \* "r1"
W_r2 == <<114, 50>>   \* "r2"
W_r3 == <<114, 51>>   \* "r3"
W_r4 == <<114, 52>>   \* "r4"
W_course == <<99, 111, 117, 114, 115, 101>>   \* "course"
W_club == <<99, 108, 117, 98>>   \* "club"
W_venue == <<118, 101, 110, 117, 101>>   \* "venue"
W_tournament == <<116, 111, 117, 114, 110, 97, 109, 101, 110, 116>>   \* "tournament"
W_event == <<101, 118, 101, 110, 116>>   \* "event"
V_A == <<65>>   \* "A"
V_B == <<66>>   \* "B"
V_day == <<50, 48, 50, 52, 45, 48, 49, 45, 48, 49>>   \* "2024-01-01"
V_x == <<120>>   \* "x"

\* ------------------------------------------------------- program constants
FileCap == 200      \* files[:200]
RoundCap == 25      \* rounds[:25]
SampleCap == 5      \* len(sample_values[k]) < 5
TopKeys == 40       \* key_counts.most_common(40)
SampleKeys == 30    \* list(key_counts.keys())[:30]
SamplePrint == 5    \* sample_values[k][:5]
KeyPad == 30        \* f"{k:30}"
TopShapes == 5      \* round_shapes.most_common(5)

\* ------------------------------------------------------------------ bounds
MaxListing == 2     \* entries of a freely chosen directory listing
BigExtra == 1       \* ".json" files beyond FileCap in the large directory
LongExtra == 1      \* entries beyond RoundCap in the long record array

\* ------------------------------------------------------------- JSON values
Null == [t |-> "null", v |-> <<>>]
Num(n) == [t |-> "num", v |-> <<n>>]
Str(s) == [t |-> "str", v |-> s]
List(es) == [t |-> "list", v |-> es]
Dict(ps) == [t |-> "dict", v |-> ps]

Min(a, b) == IF a <= b THEN a ELSE b

\* isinstance(x, list), isinstance(x, dict)
IsList(x) == x.t = "list"
IsDict(x) == x.t = "dict"

\* Python truth value of a parsed JSON value: None, False, 0, "", [] and {}
\* are false, everything else is true.
Truthy(x) ==
    CASE x.t = "null" -> FALSE
      [] x.t = "bool" -> x.v[1] = 1
      [] x.t = "num" -> x.v[1] # 0
      [] OTHER -> Len(x.v) > 0

\* d.get(key): the value stored under key, None when the key is absent.
RECURSIVE GetFrom(_, _, _)
GetFrom(ps, key, i) ==
    IF i > Len(ps) THEN Null
    ELSE IF ps[i][1] = key THEN ps[i][2]
    ELSE GetFrom(ps, key, i + 1)
Get(d, key) == GetFrom(d.v, key, 1)

\* key in d
Has(d, key) == \E i \in 1..Len(d.v) : d.v[i][1] = key

\* a or b
PyOr(a, b) == IF Truthy(a) THEN a ELSE b

\* A plausible slip: the object form looks under "data" before "rounds".
ResolveRoundsDataFirst(data) ==
    IF IsDict(data)
    THEN PyOr(PyOr(PyOr(Get(data, S_data), Get(data, S_rounds)),
                   Get(data, S_items)), List(<<>>))
    ELSE data

\* lines 32-35: rounds = data.get("rounds") or data.get("data")
\*                       or data.get("items") or []   (a dict), else data
ResolveRounds(data) ==
    IF IsDict(data)
    THEN PyOr(PyOr(PyOr(Get(data, S_rounds), Get(data, S_data)),
                   Get(data, S_items)), List(<<>>))
    ELSE data

\* line 37: not isinstance(rounds, list) or not rounds
SkipFile(rs) == ~IsList(rs) \/ ~Truthy(rs)

\* f.endswith(".json")
EndsWith(s, suf) ==
    /\ Len(s) >= Len(suf)
    /\ SubSeq(s, Len(s) - Len(suf) + 1, Len(s)) = suf

\* sub in s
Contains(s, sub) ==
    \E i \in 0..(Len(s) - Len(sub)) : SubSeq(s, i + 1, i + Len(sub)) = sub

\* str.lower() on ASCII: "A".."Z" become "a".."z", all else is kept.
Lower(s) == [i \in 1..Len(s) |-> IF s[i] >= 65 /\ s[i] <= 90 THEN s[i] + 32 ELSE s[i]]

\* a < b for Python strings: code-point lexicographic order.
RECURSIVE StrLessFrom(_, _, _)
StrLessFrom(a, b, i) ==
    IF i > Len(b) THEN FALSE
    ELSE IF i > Len(a) THEN TRUE
    ELSE IF a[i] < b[i] THEN TRUE
    ELSE IF a[i] > b[i] THEN FALSE
    ELSE StrLessFrom(a, b, i + 1)
StrLess(a, b) == StrLessFrom(a, b, 1)

\* sorted(keys): insertion of each key before the first larger one.
RECURSIVE InsertSorted(_, _)
InsertSorted(s, k) ==
    IF s = <<>> THEN <<k>>
    ELSE IF StrLess(k, Head(s)) THEN <<k>> \o s
    ELSE <<Head(s)>> \o InsertSorted(Tail(s), k)
RECURSIVE SortKeys(_)
SortKeys(ks) ==
    IF ks = <<>> THEN <<>>
    ELSE InsertSorted(SortKeys(SubSeq(ks, 1, Len(ks) - 1)), ks[Len(ks)])

\* r.keys()
Keys(r) == [i \in 1..Len(r.v) |-> r.v[i][1]]

\* A plausible slip: the fingerprint keeps the record's own key order.
ShapeOfUnsorted(r) == Keys(r)

\* line 43: keys = tuple(sorted(r.keys()))
ShapeOf(r) == SortKeys(Keys(r))

\* A plausible slip: sequences pass the record test as well.
AcceptsEntryOrList(r) == r.t \in {"dict", "list"}

\* line 41: isinstance(r, dict)
AcceptsEntry(r) == IsDict(r)

\* A plausible slip: the whole record sequence is walked.
SampledRoundsAll(rs) == rs.v

\* line 40: rounds[:25]
SampledRounds(rs) == SubSeq(rs.v, 1, Min(Len(rs.v), RoundCap))

\* A plausible slip: every listed file is processed.
SelectedFilesAll(js) == js

\* line 20: files[:200]
SelectedFiles(js) == SubSeq(js, 1, Min(Len(js), FileCap))

\* A plausible slip: an empty listing is let through to the loop.
NoFilesNever(js) == FALSE

\* line 16: not files
NoFiles(js) == js = <<>>

\* A plausible slip: the sample list keeps growing.
AddSampleUncapped(samples, v) == Append(samples, v)

\* lines 48-49: if len(sample_values[k]) < 5: sample_values[k].append(v)
AddSample(samples, v) ==
    IF Len(samples) < SampleCap THEN Append(samples, v) ELSE samples

\* --------------------------------------------------- Counter (ordered dict)
\* A Counter is the sequence of its <<key, count>> items in insertion order.
RECURSIVE CountFrom(_, _, _)
CountFrom(c, k, i) ==
    IF i > Len(c) THEN 0
    ELSE IF c[i][1] = k THEN c[i][2]
    ELSE CountFrom(c, k, i + 1)
\* counter[k], 0 for a missing key
CountOf(c, k) == CountFrom(c, k, 1)

\* A plausible slip: the count is set, not added to.
IncrAssign(c, k) ==
    IF \E i \in 1..Len(c) : c[i][1] = k
    THEN [i \in 1..Len(c) |-> IF c[i][1] = k THEN <<k, 1>> ELSE c[i]]
    ELSE Append(c, <<k, 1>>)

\* counter[k] += 1: a new key is inserted last.
Incr(c, k) ==
    IF \E i \in 1..Len(c) : c[i][1] = k
    THEN [i \in 1..Len(c) |-> IF c[i][1] = k THEN <<k, c[i][2] + 1>> ELSE c[i]]
    ELSE Append(c, <<k, 1>>)

\* counter.keys()
CounterKeys(c) == [i \in 1..Len(c) |-> c[i][1]]

\* sorted(items, key=count, reverse=True): stable, so equal counts keep
\* their insertion order.
RECURSIVE InsertByCount(_, _)
InsertByCount(s, it) ==
    IF s = <<>> THEN <<it>>
    ELSE IF it[2] > Head(s)[2] THEN <<it>> \o s
    ELSE <<Head(s)>> \o InsertByCount(Tail(s), it)
RECURSIVE SortByCount(_)
SortByCount(c) ==
    IF c = <<>> THEN <<>>
    ELSE InsertByCount(SortByCount(SubSeq(c, 1, Len(c) - 1)), c[Len(c)])

\* counter.most_common(n)
MostCommon(c, n) == SubSeq(SortByCount(c), 1, Min(Len(c), n))

\* f"{k:30}": the key padded on the right with spaces to the width.
Pad(k, width) ==
    IF Len(k) >= width THEN k ELSE k \o [i \in 1..(width - Len(k)) |-> 32]

\* ------------------------------------------------------ heuristic predicates
\* A plausible slip: the key is tested without lower-casing it.
IsDateKeyCased(k) == Contains(k, W_date) \/ Contains(k, W_time)

\* line 65: "date" in lk or "time" in lk
IsDateKey(k) == Contains(Lower(k), W_date) \/ Contains(Lower(k), W_time)

\* line 67: "score" in lk or "strokes" in lk or lk in ("r1","r2","r3","r4")
IsScoreKey(k) ==
    \/ Contains(Lower(k), W_score)
    \/ Contains(Lower(k), W_strokes)
    \/ \E w \in {W_r1, W_r2, W_r3, W_r4} : Lower(k) = w

\* line 69: "course" in lk or "club" in lk or "venue" in lk
IsCourseKey(k) ==
    \/ Contains(Lower(k), W_course)
    \/ Contains(Lower(k), W_club)
    \/ Contains(Lower(k), W_venue)

\* line 71: "tournament" in lk or "event" in lk
IsTournamentKey(k) ==
    Contains(Lower(k), W_tournament) \/ Contains(Lower(k), W_event)

\* lines 62-72: one pass over the keys, each appended to every group it matches
RECURSIVE Classify(_, _, _)
Classify(ks, i, cand) ==
    IF i > Len(ks) THEN cand
    ELSE LET k == ks[i]
             c1 == IF IsDateKey(k)
                   THEN [cand EXCEPT !.date = Append(@, k)] ELSE cand
             c2 == IF IsScoreKey(k)
                   THEN [c1 EXCEPT !.score = Append(@, k)] ELSE c1
             c3 == IF IsCourseKey(k)
                   THEN [c2 EXCEPT !.course = Append(@, k)] ELSE c2
             c4 == IF IsTournamentKey(k)
                   THEN [c3 EXCEPT !.tournament = Append(@, k)] ELSE c3
         IN Classify(ks, i + 1, c4)

\* line 62: candidates = {"date": [], "score": [], "course": [], "tournament": []}
NoCandidates == [date |-> <<>>, score |-> <<>>, course |-> <<>>, tournament |-> <<>>]

\* -------------------------------------------------------- the input corpus
RecPS == Dict(<< <<K_player, Str(V_A)>>, <<K_score, Num(70)>> >>)
RecSP == Dict(<< <<K_score, Num(71)>>, <<K_player, Str(V_B)>> >>)
RecTD == Dict(<< <<K_Tournament_Date, Str(V_day)>>, <<K_R1, Num(68)>>,
                 <<K_R10, Num(0)>> >>)
RecClub == Dict(<< <<K_venue, Null>>, <<K_Home_Club, Str(V_x)>>,
                   <<K_TotalStrokes, Num(280)>>, <<K_Event_Time, Str(V_day)>> >>)
RecEmpty == Dict(<<>>)

\* An array longer than RoundCap: entry 3 is not a record, and the entries
\* past the cap carry a key of their own.
LongArray ==
    List([i \in 1..(RoundCap + LongExtra) |->
            IF i = 3 THEN Num(3)
            ELSE IF i > RoundCap THEN Dict(<< <<K_extra, Num(i)>> >>)
            ELSE Dict(<< <<K_score, Num(i)>> >>)])

Json(doc) == [suffix |-> DotJson, kind |-> "json", doc |-> doc]

\* The directory entries a freely chosen listing is built from.
Templates == <<
    Json(List(<<RecPS, RecSP>>)),
    Json(Dict(<< <<S_rounds, List(<<RecPS>>)>> >>)),
    Json(Dict(<< <<S_rounds, List(<<>>)>>, <<S_data, List(<<RecTD>>)>> >>)),
    Json(Dict(<< <<S_items, List(<<RecPS>>)>>, <<S_data, List(<<RecTD>>)>> >>)),
    Json(Dict(<< <<S_items, List(<<RecClub>>)>> >>)),
    [suffix |-> DotJson, kind |-> "malformed", doc |-> Null],
    Json(Num(7)),
    Json(Dict(<< <<S_other, List(<<RecPS>>)>> >>)),
    Json(Dict(<< <<S_rounds, Num(5)>>, <<S_data, List(<<RecPS>>)>> >>)),
    Json(LongArray),
    [suffix |-> DotTxt, kind |-> "json", doc |-> List(<<RecPS>>)],
    Json(List(<<>>)),
    Json(List(<<Num(5), List(<<>>), RecEmpty, Str(V_x), RecSP>>)),
    Json(Dict(<< <<S_data, List(<<RecTD>>)>>, <<S_rounds, List(<<RecPS>>)>>,
                 <<S_items, Num(5)>> >>)),
    [suffix |-> DotJsonBak, kind |-> "malformed", doc |-> Null],
    [suffix |-> DotJson, kind |-> "unreadable", doc |-> Null] >>

\* Decimal digits of a positive number, as character codes.
RECURSIVE Digits(_)
Digits(n) == IF n < 10 THEN <<48 + n>> ELSE Digits(n \div 10) \o <<48 + (n % 10)>>

\* The directory entry at position i of a listing: "f<i><suffix>".
Entry(i, tpl) ==
    [name |-> <<102>> \o Digits(i) \o tpl.suffix, kind |-> tpl.kind, doc |-> tpl.doc]

FreeListing(f) == [i \in DOMAIN f |-> Entry(i, Templates[f[i]])]

\* Three files, each the single record {"player": "A", "score": 70}.
EndToEnd == [i \in 1..3 |-> Entry(i, Json(List(<<RecPS>>)))]

\* More ".json" files than FileCap, after a file of another extension; the
\* files past the cap are malformed.
BigDirectory ==
    [i \in 1..(FileCap + BigExtra + 1) |->
        IF i = 1 THEN Entry(i, Templates[11])
        ELSE IF i > FileCap + 1 THEN Entry(i, Templates[6])
        ELSE IF i % 2 = 0 THEN Entry(i, Json(List(<<RecPS>>)))
        ELSE Entry(i, Json(Dict(<< <<S_rounds, List(<<RecSP>>)>> >>)))]

\* ------------------------------------------------------------------- state
VARIABLES
    dirState,       \* what ROUNDS_DIR is: "dir", "notdir" (a plain file), "missing"
    listing,        \* os.listdir(ROUNDS_DIR): the entries with what they hold
    files,          \* the names selected for processing
    fi,             \* position of the file loop in files
    data,           \* the parsed JSON of the current file
    rounds,         \* the resolved record sequence of the current file
    ri,             \* position of the record loop in rounds[:25]
    ki,             \* position of the item loop in r.items()
    key_counts,     \* Counter: key -> occurrences
    sample_values,  \* defaultdict(list): key -> first values seen
    round_shapes,   \* Counter: sorted key tuple -> records
    candidates,     \* the heuristic groups
    output,         \* the report sections printed so far
    opened,         \* the names of the files opened so far
    exc,            \* the exception that ended the run, "none" if none
    pc              \* position of the run

vars == <<dirState, listing, files, fi, data, rounds, ri, ki, key_counts,
          sample_values, round_shapes, candidates, output, opened, exc, pc>>

stats == <<key_counts, sample_values, round_shapes>>

NoSamples == [k \in {} |-> <<>>]

Init ==
    /\ \/ /\ dirState \in {"missing", "notdir"}
          /\ listing = <<>>
       \/ /\ dirState = "dir"
          /\ \/ \E n \in 0..MaxListing :
                  \E f \in [1..n -> 1..Len(Templates)] : listing = FreeListing(f)
             \/ listing = EndToEnd
             \/ listing = BigDirectory
    /\ files = <<>>
    /\ fi = 0
    /\ data = Null
    /\ rounds = Null
    /\ ri = 0
    /\ ki = 0
    /\ key_counts = <<>>
    /\ sample_values = NoSamples
    /\ round_shapes = <<>>
    /\ candidates = NoCandidates
    /\ output = <<>>
    /\ opened = <<>>
    /\ exc = "none"
    /\ pc = "start"

IsJsonName(n) == EndsWith(n, DotJson)

Names(l) == [i \in 1..Len(l) |-> l[i].name]

\* The directory entry with the given name.
FileNamed(n) == listing[CHOOSE i \in 1..Len(listing) : listing[i].name = n]

\* A plausible slip: a parse failure is swallowed per file.
ParseFailsNever(e) == FALSE

\* line 29: json.load raises on text that is not JSON
ParseFails(e) == e.kind = "malformed"

\* The record the record loop is at.
CurrentRound == SampledRounds(rounds)[ri]

\* lines 12-13
CheckDir ==
    /\ pc = "start"
    /\ IF dirState # "dir"
       THEN pc' = "exit" /\ exc' = "SystemExit"
       ELSE pc' = "list" /\ exc' = exc
    /\ UNCHANGED <<dirState, listing, files, fi, data, rounds, ri, ki, key_counts,
                   sample_values, round_shapes, candidates, output, opened>>

\* lines 15-24
ListFiles ==
    /\ pc = "list"
    /\ LET js == SelectSeq(Names(listing), IsJsonName)
       IN IF NoFiles(js)
          THEN /\ pc' = "exit" /\ exc' = "SystemExit"
               /\ UNCHANGED <<files, fi>>
          ELSE /\ files' = SelectedFiles(js)
               /\ fi' = 1
               /\ pc' = "file" /\ exc' = exc
    /\ key_counts' = <<>>
    /\ sample_values' = NoSamples
    /\ round_shapes' = <<>>
    /\ UNCHANGED <<dirState, listing, data, rounds, ri, ki, candidates, output,
                   opened>>

\* lines 26-38: the next file is opened, parsed and its record sequence
\* resolved; the loop ends when the files are exhausted.
LoopFiles ==
    /\ pc = "file"
    /\ IF fi > Len(files)
       THEN /\ pc' = "top_keys"
            /\ UNCHANGED <<fi, data, rounds, ri, opened, exc>>
       ELSE LET e == FileNamed(files[fi])
            IN IF e.kind = "unreadable"
               THEN /\ pc' = "abort" /\ exc' = "OSError"
                    /\ UNCHANGED <<fi, data, rounds, ri, opened>>
               ELSE IF ParseFails(e)
               THEN /\ pc' = "abort" /\ exc' = "JSONDecodeError"
                    /\ opened' = Append(opened, e.name)
                    /\ UNCHANGED <<fi, data, rounds, ri>>
               ELSE /\ opened' = Append(opened, e.name)
                    /\ data' = e.doc
                    /\ rounds' = ResolveRounds(e.doc)
                    /\ exc' = exc
                    /\ IF SkipFile(ResolveRounds(e.doc))
                       THEN pc' = "file" /\ fi' = fi + 1 /\ ri' = ri
                       ELSE pc' = "round" /\ fi' = fi /\ ri' = 1
    /\ UNCHANGED <<dirState, listing, files, ki, key_counts, sample_values,
                   round_shapes, candidates, output>>

\* lines 40-44: the next sampled entry; a record is counted under its shape.
NextRound ==
    /\ pc = "round"
    /\ IF ri > Len(SampledRounds(rounds))
       THEN /\ pc' = "file" /\ fi' = fi + 1
            /\ UNCHANGED <<ri, ki, round_shapes>>
       ELSE IF ~AcceptsEntry(CurrentRound)
       THEN /\ ri' = ri + 1
            /\ UNCHANGED <<pc, fi, ki, round_shapes>>
       ELSE /\ round_shapes' = Incr(round_shapes, ShapeOf(CurrentRound))
            /\ ki' = 1
            /\ pc' = "pair"
            /\ UNCHANGED <<fi, ri>>
    /\ UNCHANGED <<dirState, listing, files, data, rounds, key_counts,
                   sample_values, candidates, output, opened, exc>>

\* lines 46-49: the next (key, value) of the record.
NextPair ==
    /\ pc = "pair"
    /\ IF ki > Len(CurrentRound.v)
       THEN /\ pc' = "round" /\ ri' = ri + 1
            /\ UNCHANGED <<ki, key_counts, sample_values>>
       ELSE LET k == CurrentRound.v[ki][1]
                v == CurrentRound.v[ki][2]
                old == IF k \in DOMAIN sample_values THEN sample_values[k] ELSE <<>>
            IN /\ key_counts' = Incr(key_counts, k)
               /\ sample_values' =
                      [x \in DOMAIN sample_values \cup {k} |->
                          IF x = k THEN AddSample(old, v) ELSE sample_values[x]]
               /\ ki' = ki + 1
               /\ UNCHANGED <<pc, ri>>
    /\ UNCHANGED <<dirState, listing, files, fi, data, rounds, round_shapes,
                   candidates, output, opened, exc>>

\* lines 51-53
PrintTopKeys ==
    /\ pc = "top_keys"
    /\ LET top == MostCommon(key_counts, TopKeys)
       IN output' = Append(output,
              [header |-> "TOP KEYS (most common)",
               body |-> [i \in 1..Len(top) |-> <<Pad(top[i][1], KeyPad), top[i][2]>>]])
    /\ pc' = "samples"
    /\ UNCHANGED <<dirState, listing, files, fi, data, rounds, ri, ki, key_counts,
                   sample_values, round_shapes, candidates, opened, exc>>

\* lines 55-59
PrintSamples ==
    /\ pc = "samples"
    /\ LET all == CounterKeys(key_counts)
           ks == SubSeq(all, 1, Min(Len(all), SampleKeys))
           vs(k) == SubSeq(sample_values[k], 1, Min(Len(sample_values[k]), SamplePrint))
       IN output' = Append(output,
              [header |-> "SAMPLE VALUES (first few)",
               body |-> [i \in 1..Len(ks) |-> <<ks[i], vs(ks[i])>>]])
    /\ pc' = "heuristics"
    /\ UNCHANGED <<dirState, listing, files, fi, data, rounds, ri, ki, key_counts,
                   sample_values, round_shapes, candidates, opened, exc>>

\* lines 61-76
PrintCandidates ==
    /\ pc = "heuristics"
    /\ candidates' = Classify(CounterKeys(key_counts), 1, NoCandidates)
    /\ output' = Append(output,
           [header |-> "HEURISTIC FIELD CANDIDATES",
            body |-> << <<"date", candidates'.date>>, <<"score", candidates'.score>>,
                        <<"course", candidates'.course>>,
                        <<"tournament", candidates'.tournament>> >>])
    /\ pc' = "shapes"
    /\ UNCHANGED <<dirState, listing, files, fi, data, rounds, ri, ki, key_counts,
                   sample_values, round_shapes, opened, exc>>

\* lines 78-81
PrintShapes ==
    /\ pc = "shapes"
    /\ LET top == MostCommon(round_shapes, TopShapes)
       IN output' = Append(output,
              [header |-> "MOST COMMON ROUND SHAPES (key sets)",
               body |-> [i \in 1..Len(top) |-> <<top[i][2], top[i][1]>>]])
    /\ pc' = "done"
    /\ UNCHANGED <<dirState, listing, files, fi, data, rounds, ri, ki, key_counts,
                   sample_values, round_shapes, candidates, opened, exc>>

Next ==
    \/ CheckDir
    \/ ListFiles
    \/ LoopFiles
    \/ NextRound
    \/ NextPair
    \/ PrintTopKeys
    \/ PrintSamples
    \/ PrintCandidates
    \/ PrintShapes

Spec == Init /\ [][Next]_vars

\* ===================================================================
\* What the run has accumulated, recomputed from the directory listing
\* and the position of the loops.
\* ===================================================================

\* The ".json" entries of the directory, in listing order.
IsJsonEntry(e) == IsJsonName(e.name)
JsonEntries == SelectSeq(listing, IsJsonEntry)

\* The mappings among the first 25 entries of a document's record sequence.
SampleOf(doc) ==
    LET rs == ResolveRounds(doc)
    IN IF rs.t = "list"
       THEN SelectSeq(SubSeq(rs.v, 1, Min(Len(rs.v), 25)), IsDict)
       ELSE <<>>

\* The records of the ".json" files at positions lo..hi, in order.
RECURSIVE RecordsBetween(_, _, _)
RecordsBetween(es, lo, hi) ==
    IF lo > hi THEN <<>>
    ELSE IF lo = hi THEN SampleOf(es[lo].doc)
    ELSE LET mid == (lo + hi) \div 2
         IN RecordsBetween(es, lo, mid) \o RecordsBetween(es, mid + 1, hi)

\* The records of the first n ".json" files.
RecordsOfFiles(es, n) == RecordsBetween(es, 1, n)

\* The records whose items are all accumulated: those of the files before
\* the current one, and of the current file those before the current entry.
DoneRecords ==
    RecordsOfFiles(JsonEntries, fi - 1)
        \o (IF pc \in {"round", "pair"}
            THEN SelectSeq(SubSeq(rounds.v, 1, ri - 1), IsDict)
            ELSE <<>>)

\* The records counted under their shape: the current one is, from the
\* moment its items are walked.
ShapedRecords == DoneRecords \o (IF pc = "pair" THEN <<rounds.v[ri]>> ELSE <<>>)

\* The (key, value) items accumulated so far, in encounter order.
RECURSIVE ItemsBetween(_, _, _)
ItemsBetween(rs, lo, hi) ==
    IF lo > hi THEN <<>>
    ELSE IF lo = hi THEN rs[lo].v
    ELSE LET mid == (lo + hi) \div 2
         IN ItemsBetween(rs, lo, mid) \o ItemsBetween(rs, mid + 1, hi)
ItemsOf(rs) == ItemsBetween(rs, 1, Len(rs))
DoneItems ==
    ItemsOf(DoneRecords)
        \o (IF pc = "pair" THEN SubSeq(rounds.v[ri].v, 1, ki - 1) ELSE <<>>)

\* The values seen for key k, in encounter order.
ValuesOf(items, k) ==
    LET HasKey(it) == it[1] = k
        its == SelectSeq(items, HasKey)
    IN [i \in 1..Len(its) |-> its[i][2]]

\* The distinct keys of the items, in order of first encounter.
FirstSeen(items) ==
    LET IsFirst(i) == \A j \in 1..(i - 1) : items[j][1] # items[i][1]
        firsts == SelectSeq([i \in 1..Len(items) |-> i], IsFirst)
    IN [n \in 1..Len(firsts) |-> items[firsts[n]][1]]
EncounterOrder == FirstSeen(DoneItems)

SetOf(s) == {s[i] : i \in 1..Len(s)}
KeySet(r) == {r.v[i][1] : i \in 1..Len(r.v)}

RECURSIVE SumCountsFrom(_, _)
SumCountsFrom(c, i) == IF i > Len(c) THEN 0 ELSE c[i][2] + SumCountsFrom(c, i + 1)
SumCounts(c) == SumCountsFrom(c, 1)

Reporting == pc \in {"top_keys", "samples", "heuristics", "shapes", "done"}

\* ===================================================================
\* Claims
\* ===================================================================

\* The value of the first alias key present in a mapping, [] if none is.
FirstPresent(d) ==
    IF Has(d, S_rounds) THEN Get(d, S_rounds)
    ELSE IF Has(d, S_data) THEN Get(d, S_data)
    ELSE IF Has(d, S_items) THEN Get(d, S_items)
    ELSE List(<<>>)

\* C1 as stated: for a file whose top level is a mapping, the record
\* sequence is the value of the first of "rounds", "data", "items" that is
\* present, even when that value is an empty sequence.
C1_FirstPresentAlias == IsDict(data) => rounds = FirstPresent(data)

\* C1 amended: for a mapping the record sequence is the value of the first
\* of "rounds", "data", "items" that is present with a truthy value (an
\* empty sequence, null, false, 0, "" or {} does not stop the lookup), and
\* the empty sequence if there is none; so {"rounds": A, ...} with A a
\* non-empty array is sampled exactly as the top-level array A is, whatever
\* the other alias keys hold.
C1_FirstTruthyAlias ==
    LET aliases == <<S_rounds, S_data, S_items>>
        hits == {i \in 1..3 : Has(data, aliases[i]) /\ Truthy(Get(data, aliases[i]))}
        first == CHOOSE i \in hits : \A j \in hits : i <= j
    IN /\ IsDict(data) /\ hits = {} => rounds = List(<<>>)
       /\ IsDict(data) /\ hits # {} => rounds = Get(data, aliases[first])
       /\ IsDict(data) /\ IsList(Get(data, S_rounds)) /\ Get(data, S_rounds).v # <<>>
            => rounds = Get(data, S_rounds)
       /\ IsList(data) => rounds = data

\* C1 witness: "rounds" holds an empty array, and the record under "data"
\* has been accumulated.
C1_Witness ==
    /\ pc = "done"
    /\ IsDict(data) /\ Has(data, S_rounds) /\ Get(data, S_rounds) = List(<<>>)
    /\ rounds = List(<<RecTD>>)
    /\ CountOf(key_counts, K_Tournament_Date) = 1

\* C2: when the directory is missing, is not a directory, or holds no
\* ".json" file, the run ends in SystemExit before a file is read, a
\* statistic accumulated or a report section printed.
C2_ConfigErrorsFailFast ==
    (dirState # "dir" \/ JsonEntries = <<>>) =>
        /\ pc \in {"start", "list", "exit"}
        /\ dirState # "dir" => pc # "list"
        /\ pc = "exit" => exc = "SystemExit"
        /\ pc # "exit" => ENABLED Next
        /\ opened = <<>>
        /\ key_counts = <<>> /\ sample_values = NoSamples /\ round_shapes = <<>>
        /\ output = <<>>

\* C2 witness: a directory that has entries, none of them a ".json" file,
\* has ended the run.
C2_Witness ==
    /\ pc = "exit" /\ exc = "SystemExit"
    /\ dirState = "dir" /\ Len(listing) = 2 /\ JsonEntries = <<>>

\* C3: a malformed file among the processed ones leaves the output empty:
\* the run aborts on it with the parse error, however many files were
\* accumulated before, and a section is printed only after every processed
\* file has parsed.
C3_MalformedAbortsWithoutReport ==
    LET je == JsonEntries
        bad == {j \in 1..Len(files) : je[j].kind = "malformed"}
    IN /\ bad # {} => output = <<>> /\ ~Reporting
       /\ bad # {} /\ ~ENABLED Next => pc = "abort"
       /\ exc = "JSONDecodeError" =>
            /\ pc = "abort" /\ ~ENABLED Next
            /\ je[fi].kind = "malformed"
       /\ output # <<>> => Reporting /\ fi > Len(files)

\* C3 witness: the run aborted on the second file after accumulating the
\* records of the first.
C3_Witness ==
    /\ pc = "abort" /\ exc = "JSONDecodeError"
    /\ fi = 2 /\ key_counts # <<>> /\ output = <<>>

\* C4: the records accumulated are the mappings among the first min(N, 25)
\* entries of each file's record sequence, in order; no entry past the 25th
\* is counted, under a shape or under a key.
C4_PerFileRecordCap ==
    LET shaped == ShapedRecords
        items == DoneItems
    IN /\ SumCounts(round_shapes) = Len(shaped)
       /\ pc = "round" =>
            /\ ri <= Min(Len(rounds.v), 25) + 1
            /\ SumCounts(round_shapes) - Len(RecordsOfFiles(JsonEntries, fi - 1))
                 = Cardinality({i \in 1..(ri - 1) : rounds.v[i].t = "dict"})
       /\ \A i \in 1..Len(key_counts) :
            \E j \in 1..Len(items) : items[j][1] = key_counts[i][1]
       /\ \A i \in 1..Len(round_shapes) :
            \E j \in 1..Len(shaped) :
               KeySet(shaped[j]) = SetOf(round_shapes[i][1])

\* C4 witness: a file of more than 25 entries, one of the first 25 not a
\* mapping, has contributed 24 records and nothing of its later entries.
C4_Witness ==
    /\ pc = "done" /\ Len(files) = 1
    /\ IsList(rounds) /\ Len(rounds.v) > 25
    /\ SumCounts(round_shapes) = 24
    /\ CountOf(key_counts, K_extra) = 0

\* C5: at every point of the run the sample list of every key is the first
\* min(5, c) values seen for it, in encounter order and repeats kept, c the
\* number of records seen to contain the key; and a list of 5 entries never
\* changes again.
C5_SampleListIsFirstFive ==
    /\ [](LET items == DoneItems
          IN \A k \in DOMAIN sample_values :
                LET seen == ValuesOf(items, k)
                IN /\ Len(seen) = CountOf(key_counts, k)
                   /\ sample_values[k] = SubSeq(seen, 1, Min(5, Len(seen))))
    /\ [][\A k \in DOMAIN sample_values :
            Len(sample_values[k]) = 5
                => k \in DOMAIN sample_values' /\ sample_values'[k] = sample_values[k]]_vars

\* C5 witness: a key seen in more than 5 records has exactly 5 samples.
C5_Witness ==
    /\ pc = "done"
    /\ CountOf(key_counts, K_score) > 5
    /\ Len(sample_values[K_score]) = 5

\* C6: the shape counter has one entry per key set: records with the same
\* keys in any order are counted under the same entry, records with
\* different key sets under different ones, and each count is the number
\* of records with exactly that key set.
C6_ShapeIsOrderIndependent ==
    LET shaped == ShapedRecords
    IN /\ \A i, j \in 1..Len(round_shapes) :
            SetOf(round_shapes[i][1]) = SetOf(round_shapes[j][1]) => i = j
       /\ \A i \in 1..Len(round_shapes) :
            round_shapes[i][2] =
               Cardinality({n \in 1..Len(shaped) :
                               KeySet(shaped[n]) = SetOf(round_shapes[i][1])})
       /\ \A n \in 1..Len(shaped) :
            \E i \in 1..Len(round_shapes) :
               KeySet(shaped[n]) = SetOf(round_shapes[i][1])

\* C6 witness: two records with the same keys in different order are
\* counted under one shape.
C6_Witness ==
    /\ pc = "done"
    /\ Len(files) = 1
    /\ rounds = List(<<RecPS, RecSP>>)
    /\ Keys(RecPS) # Keys(RecSP)
    /\ round_shapes = << <<(<<K_player, K_score>>), 2>> >>

\* C7: the files processed are the first min(n, 200) of the n listed
\* ".json" files, in listing order; no later file is opened, so none can
\* abort the run, and at most 25 * min(n, 200) records are accumulated.
C7_FileCap ==
    LET je == JsonEntries
        n == Len(je)
    IN /\ pc \notin {"start", "list", "exit"} =>
            files = SubSeq(Names(je), 1, Min(n, 200))
       /\ Len(opened) <= Min(n, 200)
       /\ \A i \in 1..Len(opened) : opened[i] = je[i].name
       /\ pc = "abort" => fi <= Min(n, 200)
       /\ SumCounts(round_shapes) <= 25 * Min(n, 200)
       /\ \A i \in 1..Len(key_counts) : key_counts[i][2] <= 25 * Min(n, 200)

\* C7 witness: a directory of more than 200 ".json" files, the later ones
\* malformed, has been reported on after opening 200 files.
C7_Witness ==
    /\ pc = "done"
    /\ listing = BigDirectory
    /\ Len(JsonEntries) > 200
    /\ JsonEntries[201].kind = "malformed"
    /\ Len(opened) = 200

\* s contains w, case-insensitively.
HasWord(s, w) ==
    \E i \in 1..Len(s) : \E j \in i..Len(s) : Lower(SubSeq(s, i, j)) = w

\* The group predicates as the report describes them.
InDateGroup(k) == HasWord(k, W_date) \/ HasWord(k, W_time)
InScoreGroup(k) ==
    \/ HasWord(k, W_score) \/ HasWord(k, W_strokes)
    \/ Lower(k) = W_r1 \/ Lower(k) = W_r2 \/ Lower(k) = W_r3 \/ Lower(k) = W_r4
InCourseGroup(k) == HasWord(k, W_course) \/ HasWord(k, W_club) \/ HasWord(k, W_venue)
InTournamentGroup(k) == HasWord(k, W_tournament) \/ HasWord(k, W_event)

\* C8: once classified, each group lists, in key-encounter order, exactly
\* the encountered keys whose lowercase form satisfies the group's
\* predicate; "Tournament_Date" is in date and tournament only, "R1" is in
\* score by the exact match, which "R10" does not meet.
C8_HeuristicGroups ==
    pc \in {"shapes", "done"} =>
      LET order == EncounterOrder
      IN
        /\ CounterKeys(key_counts) = order
        /\ candidates.date = SelectSeq(order, InDateGroup)
        /\ candidates.score = SelectSeq(order, InScoreGroup)
        /\ candidates.course = SelectSeq(order, InCourseGroup)
        /\ candidates.tournament = SelectSeq(order, InTournamentGroup)
        /\ K_Tournament_Date \in SetOf(order) =>
             /\ K_Tournament_Date \in SetOf(candidates.date)
             /\ K_Tournament_Date \in SetOf(candidates.tournament)
             /\ K_Tournament_Date \notin SetOf(candidates.score)
             /\ K_Tournament_Date \notin SetOf(candidates.course)
        /\ K_R1 \in SetOf(order) =>
             /\ K_R1 \in SetOf(candidates.score)
             /\ K_R1 \notin SetOf(candidates.date) \cup SetOf(candidates.course)
                             \cup SetOf(candidates.tournament)
        /\ K_R10 \notin SetOf(candidates.score)

\* C8 witness: "Tournament_Date", "R1" and keys of the other groups have
\* been classified.
C8_Witness ==
    /\ pc = "done"
    /\ candidates.date = <<K_Tournament_Date, K_Event_Time>>
    /\ candidates.tournament = <<K_Tournament_Date, K_Event_Time>>
    /\ candidates.score = <<K_R1, K_TotalStrokes>>
    /\ candidates.course = <<K_venue, K_Home_Club>>

\* C9: a file that parses but whose record sequence is not a non-empty
\* sequence, and a sampled entry that is not a mapping, leave the three
\* aggregates as they were and raise nothing; the run goes on with the next
\* file or entry.
C9_SoftSkipLeavesStats ==
    [][/\ ( /\ pc = "file" /\ fi <= Len(files)
            /\ FileNamed(files[fi]).kind = "json"
            /\ ~(rounds'.t = "list" /\ Len(rounds'.v) > 0) )
          => /\ stats' = stats
             /\ exc' = "none"
             /\ pc' = "file" /\ fi' = fi + 1
       /\ ( /\ pc = "round" /\ ri <= Min(Len(rounds.v), 25)
            /\ rounds.v[ri].t # "dict" )
          => /\ stats' = stats
             /\ exc' = "none"
             /\ pc' = "round" /\ ri' = ri + 1 /\ fi' = fi]_vars

\* C9 witness: after a first file with a skipped entry was accumulated, a
\* second file holding a scalar was skipped and the run went on to report.
C9_Witness ==
    /\ pc = "done" /\ Len(opened) = 2
    /\ data = Num(7)
    /\ JsonEntries[1].doc = List(<<Num(5), List(<<>>), RecEmpty, Str(V_x), RecSP>>)
    /\ SumCounts(round_shapes) = 2

\* C10: between records, the shape counts sum to the number of records
\* accumulated; each key's frequency is the sum of the counts of the shapes
\* containing it, so none exceeds the number of records; and the keys with
\* a non-empty sample list are the keys with a positive frequency.  Three
\* files of one record {player, score} give player: 3, score: 3 and the
\* one shape [player, score] with count 3.
C10_AggregatesConsistent ==
    pc # "pair" =>
      LET done == Len(DoneRecords)
      IN
        /\ SumCounts(round_shapes) = done
        /\ \A i \in 1..Len(key_counts) :
             LET k == key_counts[i][1]
                 with == {j \in 1..Len(round_shapes) : k \in SetOf(round_shapes[j][1])}
                 shapes == [j \in 1..Len(round_shapes) |->
                              IF j \in with THEN round_shapes[j]
                              ELSE <<round_shapes[j][1], 0>>]
             IN /\ key_counts[i][2] = SumCounts(shapes)
                /\ key_counts[i][2] <= done
        /\ \A j \in 1..Len(round_shapes) :
             \A k \in SetOf(round_shapes[j][1]) : CountOf(key_counts, k) > 0
        /\ {k \in DOMAIN sample_values : sample_values[k] # <<>>}
             = {key_counts[i][1] : i \in {n \in 1..Len(key_counts) : key_counts[n][2] > 0}}
        /\ listing = EndToEnd /\ pc = "done" =>
             /\ key_counts = << <<K_player, 3>>, <<K_score, 3>> >>
             /\ round_shapes = << <<(<<K_player, K_score>>), 3>> >>

\* C10 witness: the three-file run has been reported on.
C10_Witness ==
    /\ pc = "done" /\ listing = EndToEnd
    /\ CountOf(key_counts, K_player) = 3
    /\ SumCounts(round_shapes) = 3
====
